---- MODULE Spec2Model ----
(***************************************************************************)
(* Model of the eksisozluk scraper (src/src/eksisozluk_scraper.py,         *)
(* src/src/main.py, src/src/data_writer.py).                               *)
(*                                                                         *)
(* Text is modelled as a sequence of one-character strings, so that        *)
(* str.strip, str.split, int() and the f-string of the file name are       *)
(* computed, not assumed.  An awaited call is one action per suspension    *)
(* point: the task's position is the pc of the thread or of the page.      *)
(***************************************************************************)
EXTENDS Integers, Sequences, FiniteSets, Bags, TLC

VARIABLES
    args,                    \* __main__: the parsed command line and the file it names
    main_pc,                 \* position of the script: "cli", "running" (in asyncio.run), "exit"
    exit_status,             \* status the process ended with (-1 while it runs)
    thread_list,             \* main(threads): the identifiers given to main
    output_format,           \* main(output_format)
    max_concurrent_requests, \* scrape_thread(max_concurrent_requests)
    site,                    \* what the remote site serves to each process_thread task
    tpc,                     \* position of each process_thread task
    number_of_pages,         \* per task: value returned by find_number_of_pages
    semaphore,               \* per task: free slots of asyncio.Semaphore(max_concurrent_requests)
    ppc,                     \* per task, per page: position of the scrape_page task
    attempts,                \* per task, per page: HTTP GETs issued by scrape_page
    page_result,             \* per task, per page: outcome of the scrape_page task
    completed,               \* per task: page numbers in the order their tasks finished
    scraped_data,            \* per task: outcome of scrape_thread
    written,                 \* DataWriter.write_data calls that were made, in order
    log,                     \* diagnostics recorded through logging.*
    requests,                \* per task: bag of the urls session.get was called with
    executor,                \* ThreadPoolExecutor: the jobs submitted and not yet returned, oldest first
    entry_date_text,         \* _parse_entry: the entry node under parse (unit run)
    parsed,                  \* _parse_entry: its outcome (unit run)
    legacy                   \* src/eksisozluk_scraper.py run as a script: its loop over thread_list

vars == <<args, main_pc, exit_status, thread_list, output_format,
          max_concurrent_requests, site, tpc, number_of_pages, semaphore, ppc,
          attempts, page_result, completed, scraped_data, written, log,
          requests, executor, entry_date_text, parsed, legacy>>

-----------------------------------------------------------------------------
(* Bounds of the model *)

\* longest date text enumerated for the unit run of _parse_entry
MaxLen == 4
\* largest page count a pager declares
MaxPages == 3
\* largest per-thread budget handed to scrape_thread
MaxBudget == 2
\* longest list of identifiers given to main in the batch run
MaxThreads == 2
\* longest thread list given to the legacy script
MaxList == 61

(* Program constants *)

\* backoff.on_exception(..., max_tries=8, ...)
max_tries == 8
\* scrape_thread(..., max_concurrent_requests: int = 15)
DefaultMaxConcurrentRequests == 15
\* ThreadPoolExecutor(max_workers=10)
max_workers == 10
\* MAX_THREADS_AT_ONCE = 30 of the legacy script
MAX_THREADS_AT_ONCE == 30

-----------------------------------------------------------------------------
(* Python text primitives *)

\* str.isspace for one character
IsSpace(c) == c \in {" ", "\n"}

RECURSIVE LStrip(_)
\* str.lstrip()
LStrip(s) ==
    IF s = <<>> THEN <<>>
    ELSE IF IsSpace(Head(s)) THEN LStrip(Tail(s)) ELSE s

RECURSIVE RStrip(_)
\* str.rstrip()
RStrip(s) ==
    IF s = <<>> THEN <<>>
    ELSE IF IsSpace(s[Len(s)]) THEN RStrip(SubSeq(s, 1, Len(s) - 1)) ELSE s

\* str.strip()
Strip(s) == RStrip(LStrip(s))

\* sep in s
Contains(s, sep) == \E i \in 1..Len(s) : s[i] = sep

\* s.index(sep), for a text that contains sep
IndexOf(s, sep) == CHOOSE i \in 1..Len(s) : s[i] = sep /\ \A j \in 1..(i - 1) : s[j] # sep

RECURSIVE Split(_, _)
\* s.split(sep): every occurrence of sep separates two parts
Split(s, sep) ==
    IF ~Contains(s, sep) THEN <<s>>
    ELSE LET i == IndexOf(s, sep)
         IN  <<SubSeq(s, 1, i - 1)>> \o Split(SubSeq(s, i + 1, Len(s)), sep)

\* [part.strip() for part in parts]
StripAll(parts) == [i \in 1..Len(parts) |-> Strip(parts[i])]

\* the literal 'null' of _parse_entry
NullText == <<"n", "u", "l", "l">>

\* outcome of a call: either a value or the exception it raised
Returned(v) == [exc |-> "none", value |-> v]
Raised(e) == [exc |-> e, value |-> <<>>]

-----------------------------------------------------------------------------
(* _parse_entry *)

\* a node that entry.find(class_=...) found, with its text; or None
Node(text) == [found |-> TRUE, text |-> text]
NoNode == [found |-> FALSE, text |-> <<>>]

\* date_created, last_changed = [part.strip() for part in text.split('~')]:
\* unpacking into two names raises ValueError unless there are two parts
date_split(text) ==
    LET parts == StripAll(Split(text, "~"))
    IN  IF Len(parts) = 2 THEN Returned(parts) ELSE Raised("ValueError")

\* the body of _parse_entry: .text of a missing node raises AttributeError
parse_entry(entry) ==
    IF ~entry.content.found \/ ~entry.author.found \/ ~entry.date.found
    THEN Raised("AttributeError")
    ELSE LET text == Strip(entry.date.text)
             dates == IF Contains(text, "~") THEN date_split(text)
                      ELSE Returned(<<text, NullText>>)
         IN  IF dates.exc # "none" THEN Raised(dates.exc)
             ELSE Returned([Content |-> Strip(entry.content.text),
                            Author |-> Strip(entry.author.text),
                            DateCreated |-> dates.value[1],
                            LastChanged |-> dates.value[2]])

\* as parse_entries, but an entry that raises is left out of the list
parse_entries_skipping(entries) ==
    LET good == SelectSeq(entries, LAMBDA e : parse_entry(e).exc = "none")
    IN  Returned([i \in 1..Len(good) |-> parse_entry(good[i]).value])

\* [await self._parse_entry(entry) for entry in entries]: the first entry that
\* raises ends the comprehension
parse_entries(entries) ==
    LET bad == {i \in 1..Len(entries) : parse_entry(entries[i]).exc # "none"}
    IN  IF bad # {}
        THEN Raised(parse_entry(entries[CHOOSE i \in bad : \A j \in bad : i <= j]).exc)
        ELSE Returned([i \in 1..Len(entries) |-> parse_entry(entries[i]).value])

-----------------------------------------------------------------------------
(* find_number_of_pages *)

Digits == <<"0", "1", "2", "3", "4", "5", "6", "7", "8", "9">>
IsDigit(c) == \E d \in 1..10 : Digits[d] = c
DigitVal(c) == (CHOOSE d \in 1..10 : Digits[d] = c) - 1

RECURSIVE DecimalVal(_)
DecimalVal(s) ==
    IF s = <<>> THEN 0
    ELSE 10 * DecimalVal(SubSeq(s, 1, Len(s) - 1)) + DigitVal(s[Len(s)])

\* int(text) over the characters the model uses: surrounding blanks are
\* dropped, one sign is allowed, the rest must be one or more digits
int(text) ==
    LET s == Strip(text)
        signed == s # <<>> /\ Head(s) \in {"-", "+"}
        body == IF signed THEN Tail(s) ELSE s
    IN  IF body = <<>> \/ \E i \in 1..Len(body) : ~IsDigit(body[i])
        THEN [exc |-> "ValueError", value |-> 0]
        ELSE [exc |-> "none",
              value |-> IF signed /\ Head(s) = "-" THEN 0 - DecimalVal(body)
                        ELSE DecimalVal(body)]

\* the try block of find_number_of_pages, given what the GET of the thread url
\* yields: doc.transport is "ok" or the exception session.get raised,
\* doc.pager whether soup.find('div', class_='pager') found a node,
\* doc.pagecount its data-pagecount attribute (or none)
find_number_of_pages_try(doc) ==
    IF doc.transport # "ok" THEN [exc |-> doc.transport, value |-> 0]
    ELSE IF doc.pager /\ doc.pagecount.found THEN int(doc.pagecount.text)
    ELSE [exc |-> "none", value |-> 1]

\* find_number_of_pages: except Exception: log, return 1
find_number_of_pages(doc) ==
    LET r == find_number_of_pages_try(doc)
    IN  IF r.exc # "none" THEN 1 ELSE r.value

-----------------------------------------------------------------------------
(* scrape_page *)

\* the try block of one call of scrape_page: the GET of the page url, then the
\* parse of its entries.  page.fail_first is the number of initial GETs of this
\* url on which the transport raises aiohttp.ClientError; page.entries is
\* soup.find_all(id='entry-item') of the body it serves otherwise
transport_fails(page, attempt) == attempt <= page.fail_first

scrape_page_try(page, attempt) ==
    IF transport_fails(page, attempt) THEN Raised("ClientError")
    ELSE parse_entries(page.entries)

\* as scrape_page_except, but without the handler: the exception leaves scrape_page
scrape_page_no_except(outcome) == outcome

\* except Exception as e: logging.error(...); return []
scrape_page_except(outcome) ==
    IF outcome.exc # "none" THEN Returned(<<>>) ELSE outcome

\* @backoff.on_exception(backoff.expo, aiohttp.ClientError, max_tries=8, ...):
\* the call is made again when it raised ClientError and tries remain
backoff_retries(outcome, tries) ==
    outcome.exc = "ClientError" /\ tries < max_tries

\* as semaphore_release, but the slot is given back only when the try block
\* did not raise (release() at the end of the try block instead of `async with`)
semaphore_release_on_success(free, outcome) ==
    IF outcome.exc = "none" THEN free + 1 ELSE free

\* leaving `async with semaphore`: the slot is given back, whatever the
\* outcome of the block
semaphore_release(free, outcome) == free + 1

\* self.executor: a job is queued by run_in_executor; the max_workers oldest
\* jobs are the ones a worker runs; a job leaves when it returns
run_in_executor(jobs, job) == Append(jobs, job)
executor_runs(jobs, job) ==
    \E i \in 1..Len(jobs) : i <= max_workers /\ jobs[i] = job
executor_returns(jobs, job) == SelectSeq(jobs, LAMBDA j : j # job)

\* BASE_URL = 'https://www.eksisozluk.com/'
BASE_URL ==
    <<"h", "t", "t", "p", "s", ":", "/", "/", "w", "w", "w", ".", "e", "k", "s", "i",
      "s", "o", "z", "l", "u", "k", ".", "c", "o", "m", "/">>

RECURSIVE str(_)
\* str(page) of a page number >= 0
str(n) == IF n < 10 THEN <<Digits[n + 1]>> ELSE str(n \div 10) \o <<Digits[(n % 10) + 1]>>

\* thread_url = self.base_url + thread
thread_url(thread) == BASE_URL \o thread

\* as page_url, but the first page is asked for at the thread url itself
page_url_first_bare(thread, page) ==
    IF page = 1 THEN BASE_URL \o thread
    ELSE BASE_URL \o thread \o <<"?", "p", "=">> \o str(page)

\* thread_url + '?p=' + str(page)
page_url(thread, page) == thread_url(thread) \o <<"?", "p", "=">> \o str(page)

\* page tasks of task t that hold a slot of the semaphore
InFlight(t) == {p \in DOMAIN ppc[t] : ppc[t][p] \in {"fetch", "parse"}}

\* as semaphore_free, but one slot short (value > 1)
semaphore_free_strict(t) == semaphore[t] > 1

\* as semaphore_free, but the slot is taken without waiting for one
semaphore_not_awaited(t) == TRUE

\* async with semaphore: a slot is taken when one is free
semaphore_free(t) == semaphore[t] > 0

Diag(level, where, t, p) == [level |-> level, where |-> where, task |-> t, page |-> p]

\* async with semaphore: ...; session.get(url) is issued, the task awaits it
scrape_page_acquire(t, p) ==
    /\ tpc[t] = "gather"
    /\ p \in DOMAIN ppc[t]
    /\ ppc[t][p] = "wait"
    /\ semaphore_free(t)
    /\ semaphore' = [semaphore EXCEPT ![t] = @ - 1]
    /\ ppc' = [ppc EXCEPT ![t][p] = "fetch"]
    /\ attempts' = [attempts EXCEPT ![t][p] = @ + 1]
    /\ requests' = [requests EXCEPT ![t] = @ (+) SetToBag({page_url(thread_list[t], p)})]
    /\ UNCHANGED <<thread_list, output_format, max_concurrent_requests, site, tpc,
                   number_of_pages, page_result, completed, scraped_data, written,
                   log, entry_date_text, parsed>>
    /\ UNCHANGED <<legacy, args, main_pc, exit_status, executor>>

\* the call of scrape_page ends with `outcome` of its try block: the handler
\* runs, the slot is released, and the decorator either calls again or lets
\* the task finish
scrape_page_finish(t, p, outcome) ==
    LET result == scrape_page_except(outcome)
    IN  /\ semaphore' = [semaphore EXCEPT ![t] = semaphore_release(semaphore[t], outcome)]
        /\ log' = IF outcome.exc # "none" /\ result.exc = "none"
                  THEN log \cup {Diag("error", "scrape_page", t, p)}
                  ELSE log
        /\ IF backoff_retries(result, attempts[t][p])
           THEN /\ ppc' = [ppc EXCEPT ![t][p] = "wait"]
                /\ UNCHANGED <<page_result, completed>>
           ELSE /\ ppc' = [ppc EXCEPT ![t][p] = "done"]
                /\ page_result' = [page_result EXCEPT ![t][p] = result]
                /\ completed' = [completed EXCEPT ![t] = Append(@, p)]

\* session.get / response.text() returns or raises; on a body the parse is
\* handed to the executor (run_in_executor) and awaited
scrape_page_response(t, p) ==
    /\ tpc[t] = "gather"
    /\ p \in DOMAIN ppc[t]
    /\ ppc[t][p] = "fetch"
    /\ IF transport_fails(site[t].pages[p], attempts[t][p])
       THEN scrape_page_finish(t, p, scrape_page_try(site[t].pages[p], attempts[t][p]))
       ELSE /\ ppc' = [ppc EXCEPT ![t][p] = "parse"]
            /\ UNCHANGED <<semaphore, page_result, completed, log>>
    /\ executor' = IF transport_fails(site[t].pages[p], attempts[t][p])
                   THEN executor ELSE run_in_executor(executor, <<t, p>>)
    /\ UNCHANGED <<thread_list, output_format, max_concurrent_requests, site, tpc,
                   number_of_pages, attempts, scraped_data, written,
                   entry_date_text, parsed>>
    /\ UNCHANGED <<legacy, args, main_pc, exit_status, requests>>

\* the executor returns the soup; the entries are parsed and the call ends
scrape_page_parsed(t, p) ==
    /\ tpc[t] = "gather"
    /\ p \in DOMAIN ppc[t]
    /\ ppc[t][p] = "parse"
    /\ executor_runs(executor, <<t, p>>)
    /\ executor' = executor_returns(executor, <<t, p>>)
    /\ scrape_page_finish(t, p, scrape_page_try(site[t].pages[p], attempts[t][p]))
    /\ UNCHANGED <<thread_list, output_format, max_concurrent_requests, site, tpc,
                   number_of_pages, attempts, scraped_data, written,
                   entry_date_text, parsed>>
    /\ UNCHANGED <<legacy, args, main_pc, exit_status, requests>>

-----------------------------------------------------------------------------
(* scrape_thread, process_thread, DataWriter.write_data *)

Tasks == DOMAIN thread_list

\* range(1, int(number_of_pages) + 1)
page_range(n) == 1..n

RECURSIVE Flatten(_)
\* [entry for page in results for entry in page]
Flatten(results) ==
    IF results = <<>> THEN <<>> ELSE Head(results) \o Flatten(Tail(results))

\* as gather, but in the order the tasks finished (asyncio.as_completed)
gather_as_completed(results, order) == [i \in DOMAIN results |-> results[order[i]].value]

\* results = await asyncio.gather(*tasks): the values of the tasks in the order
\* the tasks were given, whatever the order `order` in which they finished
gather(results, order) == [i \in DOMAIN results |-> results[i].value]

\* f"{thread}.{output_format}"
filename_of(thread, fmt) == thread \o <<".">> \o fmt

\* as if_scraped_data, but testing for None only
if_scraped_data_is_not_none(data) == TRUE

\* if scraped_data: (an empty list is falsy)
if_scraped_data(data) == data # <<>>

CSV == <<"c", "s", "v">>
JSON == <<"j", "s", "o", "n">>

\* write_data: the writer chosen for filetype, or ValueError
write_data(filetype) ==
    IF filetype = CSV THEN "_write_csv"
    ELSE IF filetype = JSON THEN "_write_json"
    ELSE "ValueError"

\* process_thread up to its first suspension: logging.info, scrape_thread
\* creates the semaphore and find_number_of_pages issues the GET of the thread
process_thread_start(t) ==
    /\ main_pc = "running"
    /\ tpc[t] = "created"
    /\ tpc' = [tpc EXCEPT ![t] = "discover"]
    /\ semaphore' = [semaphore EXCEPT ![t] = max_concurrent_requests]
    /\ log' = log \cup {Diag("info", "started", t, 0)}
    /\ requests' = [requests EXCEPT ![t] = @ (+) SetToBag({thread_url(thread_list[t])})]
    /\ UNCHANGED <<thread_list, output_format, max_concurrent_requests, site,
                   number_of_pages, ppc, attempts, page_result, completed,
                   scraped_data, written, entry_date_text, parsed>>
    /\ UNCHANGED <<legacy, args, main_pc, exit_status, executor>>

\* find_number_of_pages returned n: scrape_thread builds one scrape_page task
\* per page number and awaits asyncio.gather
scrape_thread_tasks(t, n) ==
    /\ number_of_pages' = [number_of_pages EXCEPT ![t] = n]
    /\ ppc' = [ppc EXCEPT ![t] = [p \in page_range(n) |-> "wait"]]
    /\ attempts' = [attempts EXCEPT ![t] = [p \in page_range(n) |-> 0]]
    /\ page_result' = [page_result EXCEPT ![t] = [p \in page_range(n) |-> Returned(<<>>)]]
    /\ tpc' = [tpc EXCEPT ![t] = "gather"]

\* as find_number_of_pages_retries, but with the decorator of scrape_page
find_number_of_pages_backoff(doc, tries) ==
    doc.transport = "ClientError" /\ tries < max_tries

\* find_number_of_pages carries no backoff decorator: its GET is not repeated
find_number_of_pages_retries(doc, tries) == FALSE

\* the GET of the thread url returns or raises
find_number_of_pages_response(t) ==
    /\ tpc[t] = "discover"
    /\ IF site[t].doc.transport # "ok"
       THEN IF find_number_of_pages_retries(site[t].doc,
                    CopiesIn(thread_url(thread_list[t]), requests[t]))
            THEN /\ requests' = [requests EXCEPT
                        ![t] = @ (+) SetToBag({thread_url(thread_list[t])})]
                 /\ UNCHANGED <<tpc, number_of_pages, ppc, attempts, page_result,
                                log, executor>>
            ELSE /\ scrape_thread_tasks(t, find_number_of_pages(site[t].doc))
                 /\ log' = log \cup {Diag("error", "find_number_of_pages", t, 0)}
                 /\ UNCHANGED <<requests, executor>>
       ELSE /\ tpc' = [tpc EXCEPT ![t] = "soup"]
            /\ executor' = run_in_executor(executor, <<t, 0>>)
            /\ UNCHANGED <<number_of_pages, ppc, attempts, page_result, log, requests>>
    /\ UNCHANGED <<thread_list, output_format, max_concurrent_requests, site,
                   semaphore, completed, scraped_data, written,
                   entry_date_text, parsed>>
    /\ UNCHANGED <<legacy, args, main_pc, exit_status>>

\* the executor returns the soup of the thread's first document
find_number_of_pages_parsed(t) ==
    /\ tpc[t] = "soup"
    /\ executor_runs(executor, <<t, 0>>)
    /\ executor' = executor_returns(executor, <<t, 0>>)
    /\ UNCHANGED <<legacy, args, main_pc, exit_status, requests>>
    /\ scrape_thread_tasks(t, find_number_of_pages(site[t].doc))
    /\ log' = IF find_number_of_pages_try(site[t].doc).exc # "none"
              THEN log \cup {Diag("error", "find_number_of_pages", t, 0)}
              ELSE log
    /\ UNCHANGED <<thread_list, output_format, max_concurrent_requests, site,
                   semaphore, completed, scraped_data, written,
                   entry_date_text, parsed>>

\* page tasks of task t that finished by raising
RaisedPages(t) == {p \in DOMAIN ppc[t] : ppc[t][p] = "done" /\ page_result[t][p].exc # "none"}

\* as scrape_thread, but taking the first page's result for granted (results[0])
scrape_thread_first_page(t) ==
    IF DOMAIN ppc[t] = {} THEN Raised("IndexError")
    ELSE Returned(Flatten([i \in DOMAIN page_result[t] |-> page_result[t][i].value]))

\* what `await asyncio.gather(*tasks)` and the return of scrape_thread yield
scrape_thread(t) ==
    IF RaisedPages(t) # {}
    THEN Raised(page_result[t][CHOOSE p \in RaisedPages(t) : TRUE].exc)
    ELSE Returned(Flatten(gather(page_result[t], completed[t])))

\* as process_thread_except, but without the handler
process_thread_no_except(outcome) == outcome

\* process_thread: except Exception as e: logging.error(...)
process_thread_except(outcome) ==
    IF outcome.exc # "none" THEN Returned(<<>>) ELSE outcome

\* process_thread ends after `outcome` of its try block: "done", or "raised"
\* when an exception leaves it
process_thread_end(outcome) ==
    IF process_thread_except(outcome).exc # "none" THEN "raised" ELSE "done"

\* what process_thread logs when its try block ends with `outcome`
process_thread_log(t, outcome, success) ==
    IF outcome.exc = "none" THEN {success}
    ELSE IF process_thread_except(outcome).exc = "none"
    THEN {Diag("error", "process_thread", t, 0)}
    ELSE {}

\* asyncio.gather returns (or raises), scrape_thread returns, and process_thread
\* runs on to the await of write_data or to its end
process_thread_scraped(t) ==
    /\ tpc[t] = "gather"
    /\ RaisedPages(t) # {} \/ \A p \in DOMAIN ppc[t] : ppc[t][p] = "done"
    /\ LET data == scrape_thread(t)
           filename == filename_of(thread_list[t], output_format)
       IN  /\ scraped_data' = [scraped_data EXCEPT ![t] = data]
           /\ IF data.exc # "none"
              THEN /\ log' = log \cup process_thread_log(t, data, Diag("info", "saved", t, 0))
                   /\ tpc' = [tpc EXCEPT ![t] = process_thread_end(data)]
                   /\ UNCHANGED written
              ELSE IF if_scraped_data(data.value)
              THEN /\ written' = Append(written, [task |-> t, filename |-> filename,
                                                  data |-> data.value,
                                                  filetype |-> output_format])
                   /\ tpc' = [tpc EXCEPT ![t] = "write"]
                   /\ UNCHANGED log
              ELSE /\ log' = log \cup {Diag("warning", "no data", t, 0)}
                   /\ tpc' = [tpc EXCEPT ![t] = "done"]
                   /\ UNCHANGED written
    /\ UNCHANGED <<thread_list, output_format, max_concurrent_requests, site,
                   number_of_pages, semaphore, ppc, attempts, page_result,
                   completed, entry_date_text, parsed>>
    /\ UNCHANGED <<legacy, args, main_pc, exit_status, requests, executor>>

\* outcome of `await DataWriter.write_data(...)`: ValueError for an unsupported
\* filetype, the error of the file system when `io_ok` is false
write_data_outcome(filetype, io_ok) ==
    IF write_data(filetype) = "ValueError" THEN Raised("ValueError")
    ELSE IF ~io_ok THEN Raised("OSError")
    ELSE Returned(<<>>)

\* write_data returns or raises; process_thread logs and ends
process_thread_written(t, io_ok) ==
    /\ tpc[t] = "write"
    /\ tpc' = [tpc EXCEPT ![t] = process_thread_end(write_data_outcome(output_format, io_ok))]
    /\ log' = log \cup process_thread_log(t, write_data_outcome(output_format, io_ok),
                                          Diag("info", "saved", t, 0))
    /\ UNCHANGED <<thread_list, output_format, max_concurrent_requests, site,
                   number_of_pages, semaphore, ppc, attempts, page_result,
                   completed, scraped_data, written, entry_date_text, parsed>>
    /\ UNCHANGED <<legacy, args, main_pc, exit_status, requests, executor>>

\* process_thread tasks that ended by raising
RaisedTasks == {t \in Tasks : tpc[t] = "raised"}

\* `await asyncio.gather(*tasks)` of main returns, or raises the exception of a
\* task; main returns, asyncio.run cancels the tasks still pending and the
\* script ends: with status 0, or 1 on an exception nothing caught
main_returned ==
    /\ main_pc = "running"
    /\ RaisedTasks # {} \/ \A t \in Tasks : tpc[t] = "done"
    /\ main_pc' = "exit"
    /\ exit_status' = IF RaisedTasks # {} THEN 1 ELSE 0
    /\ tpc' = [t \in Tasks |-> IF tpc[t] \in {"done", "raised"} THEN tpc[t] ELSE "cancelled"]
    /\ UNCHANGED <<legacy, args, thread_list, output_format, max_concurrent_requests, site,
                   number_of_pages, semaphore, ppc, attempts, page_result,
                   completed, scraped_data, written, log, requests, executor,
                   entry_date_text, parsed>>

-----------------------------------------------------------------------------
(* The runs *)

\* entry nodes the modelled site serves
Entry(c, d) == [content |-> Node(c), author |-> Node(<<"u">>), date |-> Node(d)]
EntryNoAuthor == [content |-> Node(<<"c">>), author |-> NoNode, date |-> Node(<<"d">>)]

\* soup.find_all(id='entry-item') of the bodies the modelled site serves
GoodEntries == <<Entry(<<"a">>, <<"d">>), Entry(<<" ", "b">>, <<"d", " ", "~", " ", "e">>)>>
OtherEntries == <<Entry(<<"c">>, <<"e">>)>>
FieldMissing == <<Entry(<<"c">>, <<"d">>), EntryNoAuthor, Entry(<<"a">>, <<"d">>)>>
PageEntries == {<<>>, GoodEntries, OtherEntries, FieldMissing}

\* the pages a site serves: any of the bodies with a transport that never
\* raises, or the good body with a transport that raises on the first two GETs
\* or on every GET the retry policy allows
Pages ==
    {[entries |-> e, fail_first |-> 0] : e \in PageEntries}
        \cup {[entries |-> GoodEntries, fail_first |-> k] : k \in {2, max_tries}}

\* the first document of a thread
Doc(transport, pager, pagecount) ==
    [transport |-> transport, pager |-> pager, pagecount |-> pagecount]
PageCounts ==
    {<<Digits[n + 1]>> : n \in 0..MaxPages}
        \cup {<<"-", "1">>, <<"x">>, <<>>, <<" ", "1">>}
Docs ==
    {Doc("ClientError", FALSE, NoNode), Doc("ok", FALSE, NoNode), Doc("ok", TRUE, NoNode)}
        \cup {Doc("ok", TRUE, Node(c)) : c \in PageCounts}

\* what a site serves to one task: the first document, and one page per page
\* number the scraper asks for
Sites(docs, pages) ==
    UNION {{[doc |-> d, pages |-> ps] :
                ps \in [page_range(find_number_of_pages(d)) -> pages]} : d \in docs}

\* the legacy script is not the program that runs
NoLegacy == [pc |-> "none", i |-> 0, thread_subset |-> <<>>, waves |-> <<>>, unfinished |-> <<>>]

Idle ==
    /\ tpc = [t \in Tasks |-> "created"]
    /\ number_of_pages = [t \in Tasks |-> 0]
    /\ semaphore = [t \in Tasks |-> 0]
    /\ ppc = [t \in Tasks |-> <<>>]
    /\ attempts = [t \in Tasks |-> <<>>]
    /\ page_result = [t \in Tasks |-> <<>>]
    /\ completed = [t \in Tasks |-> <<>>]
    /\ scraped_data = [t \in Tasks |-> [exc |-> "pending", value |-> <<>>]]
    /\ written = <<>>
    /\ log = {}
    /\ requests = [t \in Tasks |-> EmptyBag]
    /\ executor = <<>>

\* the command line that gives main the list `threads`
Args(threads) == [threads |-> threads, file |-> "none", lines |-> <<>>]

\* one thread, scraped with a budget from 1..MaxBudget
Init ==
    /\ thread_list = <<<<"a">>>>
    /\ args = Args(thread_list)
    /\ main_pc = "running"
    /\ exit_status = -1
    /\ output_format = CSV
    /\ max_concurrent_requests \in 1..MaxBudget
    /\ site \in [Tasks -> Sites(Docs, Pages)]
    /\ Idle
    /\ legacy = NoLegacy
    /\ entry_date_text = <<>>
    /\ parsed = [exc |-> "pending", value |-> <<>>]

Next ==
    \E t \in Tasks :
        \/ process_thread_start(t)
        \/ find_number_of_pages_response(t)
        \/ find_number_of_pages_parsed(t)
        \/ \E p \in DOMAIN ppc[t] :
              \/ scrape_page_acquire(t, p)
              \/ scrape_page_response(t, p)
              \/ scrape_page_parsed(t, p)
        \/ process_thread_scraped(t)
        \/ \E io_ok \in BOOLEAN : process_thread_written(t, io_ok)
        \/ main_returned

Spec == Init /\ [][Next]_vars

\* the batch run: main is given up to MaxThreads identifiers (the same one may
\* be named twice) and process_thread leaves the budget at its default
ThreadIds == {<<"a">>, <<"b">>}
BatchDocs == {Doc("ClientError", FALSE, NoNode), Doc("ok", TRUE, Node(<<"0">>))}
BatchPages == {[entries |-> e, fail_first |-> 0] : e \in {<<>>, GoodEntries}}

InitBatch ==
    /\ thread_list \in UNION {[1..n -> ThreadIds] : n \in 1..MaxThreads}
    /\ args = Args(thread_list)
    /\ main_pc = "running"
    /\ exit_status = -1
    /\ output_format \in {CSV, JSON}
    /\ max_concurrent_requests = DefaultMaxConcurrentRequests
    /\ site \in [Tasks -> Sites(BatchDocs, BatchPages)]
    /\ Idle
    /\ legacy = NoLegacy
    /\ entry_date_text = <<>>
    /\ parsed = [exc |-> "pending", value |-> <<>>]

SpecBatch == InitBatch /\ [][Next]_vars

\* the runs checked for termination: a thread of MaxPages pages, alone or
\* with a one-page thread that shares the executor, budgets from 1..MaxBudget,
\* pages whose GET returns and pages whose GET raises
LiveDocs == <<Doc("ok", TRUE, Node(str(MaxPages))), Doc("ClientError", FALSE, NoNode)>>
LivePages == {[entries |-> OtherEntries, fail_first |-> k] : k \in {0, max_tries}}
LiveSites(t) ==
    {[doc |-> LiveDocs[t], pages |-> [p \in page_range(find_number_of_pages(LiveDocs[t])) |-> pg]] :
        pg \in LivePages}

InitLive ==
    /\ thread_list \in {<<<<"a">>>>, <<<<"a">>, <<"b">>>>}
    /\ args = Args(thread_list)
    /\ main_pc = "running"
    /\ exit_status = -1
    /\ output_format = CSV
    /\ max_concurrent_requests \in 1..MaxBudget
    /\ site \in {f \in [Tasks -> UNION {LiveSites(t) : t \in Tasks}] :
                   \A t \in Tasks : f[t] \in LiveSites(t)}
    /\ Idle
    /\ legacy = NoLegacy
    /\ entry_date_text = <<>>
    /\ parsed = [exc |-> "pending", value |-> <<>>]

\* the event loop runs a callback whenever one is ready, and every GET and
\* every executor job returns or raises: some step is taken while one is enabled
SpecLive == InitLive /\ [][Next]_vars /\ WF_vars(Next)

\* the unit run of _parse_entry: an entry node whose date text is any text of
\* up to MaxLen characters, or one of two longer samples
RECURSIVE Texts(_, _)
Texts(alphabet, n) ==
    IF n = 0 THEN {<<>>}
    ELSE Texts(alphabet, n - 1)
            \cup {Append(s, c) : s \in Texts(alphabet, n - 1), c \in alphabet}

DateTexts ==
    Texts({"d", " ", "~"}, MaxLen)
        \cup {<<"d", " ", "~", " ", "n", "u", "l", "l">>,
              <<"d", " ", "d", " ", "~", " ", "e", " ", "e">>}

InitParse ==
    /\ thread_list = <<>>
    /\ args = Args(thread_list)
    /\ main_pc = "unit"
    /\ exit_status = -1
    /\ output_format = CSV
    /\ max_concurrent_requests = DefaultMaxConcurrentRequests
    /\ site = <<>>
    /\ Idle
    /\ legacy = NoLegacy
    /\ entry_date_text \in DateTexts
    /\ parsed = [exc |-> "pending", value |-> <<>>]

\* await self._parse_entry(entry)
parse_entry_call ==
    /\ parsed.exc = "pending"
    /\ parsed' = parse_entry(Entry(<<"c">>, entry_date_text))
    /\ UNCHANGED <<thread_list, output_format, max_concurrent_requests, site, tpc,
                   number_of_pages, semaphore, ppc, attempts, page_result,
                   completed, scraped_data, written, log, entry_date_text>>
    /\ UNCHANGED <<legacy, args, main_pc, exit_status, requests, executor>>

NextParse == parse_entry_call

SpecParse == InitParse /\ [][NextParse]_vars

-----------------------------------------------------------------------------
(* __main__ of src/src/main.py *)

\* as file_error, but the IOError is only logged and the script goes on
file_error_ignored(a) == FALSE

\* except IOError as e: logging.error(...); sys.exit(1)
file_error(a) == a.file = "unreadable"

\* thread_list = args.threads if args.threads else [], extended with the
\* stripped lines of args.file when the file is given and can be read
build_thread_list(a) ==
    IF a.file = "readable" THEN a.threads \o StripAll(a.lines) ELSE a.threads

\* the command lines of the script run: at most one -t identifier, and no -f
\* file, one that cannot be opened, or one of up to MaxThreads - 1 lines
RawLines == {<<"b", "\n">>, <<" ", "a", " ", "\n">>, <<"\n">>}
ArgSets ==
    {[threads |-> th, file |-> f, lines |-> ls] :
        th \in {<<>>} \cup {<<id>> : id \in ThreadIds},
        f \in {"none", "unreadable", "readable"},
        ls \in UNION {[1..n -> RawLines] : n \in 0..(MaxThreads - 1)}}

InitMain ==
    /\ args \in {a \in ArgSets : a.file = "readable" \/ a.lines = <<>>}
    /\ main_pc = "cli"
    /\ exit_status = -1
    /\ thread_list = <<>>
    /\ output_format \in {CSV, JSON}
    /\ max_concurrent_requests = DefaultMaxConcurrentRequests
    /\ site = <<>>
    /\ Idle
    /\ legacy = NoLegacy
    /\ entry_date_text = <<>>
    /\ parsed = [exc |-> "pending", value |-> <<>>]

\* the script body: the list is built; an unreadable file or an empty list
\* ends the process with status 1, otherwise asyncio.run(main(thread_list, ...))
\* creates one process_thread task per identifier (`served` is what the site
\* will serve to each)
run_as_script(served) ==
    /\ main_pc = "cli"
    /\ LET threads == build_thread_list(args)
           failed == file_error(args) \/ threads = <<>>
       IN  /\ thread_list' = threads
           /\ DOMAIN served = DOMAIN threads
           /\ site' = served
           /\ main_pc' = IF failed THEN "exit" ELSE "running"
           /\ exit_status' = IF failed THEN 1 ELSE exit_status
           /\ log' = IF file_error(args) THEN {Diag("error", "reading file", 0, 0)}
                     ELSE IF threads = <<>> THEN {Diag("error", "no threads", 0, 0)}
                     ELSE log
           /\ tpc' = [t \in DOMAIN threads |-> "created"]
           /\ number_of_pages' = [t \in DOMAIN threads |-> 0]
           /\ semaphore' = [t \in DOMAIN threads |-> 0]
           /\ ppc' = [t \in DOMAIN threads |-> <<>>]
           /\ attempts' = [t \in DOMAIN threads |-> <<>>]
           /\ page_result' = [t \in DOMAIN threads |-> <<>>]
           /\ completed' = [t \in DOMAIN threads |-> <<>>]
           /\ scraped_data' = [t \in DOMAIN threads |-> [exc |-> "pending", value |-> <<>>]]
           /\ requests' = [t \in DOMAIN threads |-> EmptyBag]
    /\ UNCHANGED <<legacy, args, output_format, max_concurrent_requests, written, executor,
                   entry_date_text, parsed>>

NextMain ==
    \/ \E served \in UNION {[1..n -> Sites(BatchDocs, BatchPages)] : n \in 0..MaxThreads} :
          run_as_script(served)
    \/ Next

SpecMain == InitMain /\ [][NextMain]_vars

-----------------------------------------------------------------------------
(* src/eksisozluk_scraper.py run as a script: the loop over thread_list *)

\* thread_list[i:i + MAX_THREADS_AT_ONCE]
slice(list, from, to) ==
    SubSeq(list, from + 1, IF to < Len(list) THEN to ELSE Len(list))

\* as asyncio_run_returns, but main is scheduled and not waited for
asyncio_run_not_awaited(running) == TRUE

\* asyncio.run(main(thread_subset)) returns when the gather of main has
\* returned: no scrape_thread task of the subset is still running
asyncio_run_returns(running) == running = 0

\* scrape_thread invocations of wave k that have begun and not ended
Running(k) == legacy.unfinished[k]

\* one more iteration of `for i in range(0, len(thread_list), MAX_THREADS_AT_ONCE)`:
\* the subset is cut and main starts one scrape_thread task per identifier
legacy_wave_start ==
    /\ legacy.pc = "loop"
    /\ legacy.i < Len(thread_list)
    /\ LET thread_subset == slice(thread_list, legacy.i, legacy.i + MAX_THREADS_AT_ONCE)
       IN  legacy' = [legacy EXCEPT !.pc = "wave",
                                    !.thread_subset = thread_subset,
                                    !.waves = Append(@, thread_subset),
                                    !.unfinished = Append(@, Len(thread_subset))]
    /\ UNCHANGED <<args, main_pc, exit_status, thread_list, output_format,
                   max_concurrent_requests, site, tpc, number_of_pages, semaphore, ppc,
                   attempts, page_result, completed, scraped_data, written, log,
                   requests, executor, entry_date_text, parsed>>

\* a scrape_thread task of the running subset returns
legacy_scrape_thread_returns ==
    /\ legacy.pc = "wave"
    /\ Running(Len(legacy.waves)) > 0
    /\ legacy' = [legacy EXCEPT !.unfinished[Len(legacy.waves)] = @ - 1]
    /\ UNCHANGED <<args, main_pc, exit_status, thread_list, output_format,
                   max_concurrent_requests, site, tpc, number_of_pages, semaphore, ppc,
                   attempts, page_result, completed, scraped_data, written, log,
                   requests, executor, entry_date_text, parsed>>

\* a scrape_thread task raises (find_number_of_pages has no handler): gather
\* raises in main, asyncio.run cancels the tasks still running and raises, the
\* handler around the loop logs and the script ends
legacy_scrape_thread_raises ==
    /\ legacy.pc = "wave"
    /\ Running(Len(legacy.waves)) > 0
    /\ legacy' = [legacy EXCEPT !.pc = "ended", !.unfinished[Len(legacy.waves)] = 0]
    /\ log' = log \cup {Diag("error", "scraping threads", 0, 0)}
    /\ main_pc' = "exit"
    /\ exit_status' = 0
    /\ UNCHANGED <<args, thread_list, output_format,
                   max_concurrent_requests, site, tpc, number_of_pages, semaphore, ppc,
                   attempts, page_result, completed, scraped_data, written,
                   requests, executor, entry_date_text, parsed>>

\* asyncio.run returns and the loop goes on with the next i
legacy_wave_end ==
    /\ legacy.pc = "wave"
    /\ asyncio_run_returns(Running(Len(legacy.waves)))
    /\ legacy' = [legacy EXCEPT !.pc = "loop", !.i = @ + MAX_THREADS_AT_ONCE]
    /\ log' = log \cup {Diag("info", "scraped threads", 0, Len(legacy.waves))}
    /\ UNCHANGED <<args, main_pc, exit_status, thread_list, output_format,
                   max_concurrent_requests, site, tpc, number_of_pages, semaphore, ppc,
                   attempts, page_result, completed, scraped_data, written,
                   requests, executor, entry_date_text, parsed>>

\* the range is used up (or the list is empty: sys.exit(0)) and the script ends
legacy_exit ==
    /\ legacy.pc = "loop"
    /\ legacy.i >= Len(thread_list)
    /\ legacy' = [legacy EXCEPT !.pc = "ended"]
    /\ main_pc' = "exit"
    /\ exit_status' = 0
    /\ UNCHANGED <<args, thread_list, output_format,
                   max_concurrent_requests, site, tpc, number_of_pages, semaphore, ppc,
                   attempts, page_result, completed, scraped_data, written, log,
                   requests, executor, entry_date_text, parsed>>

\* the legacy script is given a list of 0..MaxList distinct identifiers
InitLegacy ==
    /\ thread_list \in {[k \in 1..n |-> str(k)] : n \in 0..MaxList}
    /\ args = Args(thread_list)
    /\ main_pc = "legacy"
    /\ exit_status = -1
    /\ output_format = CSV
    /\ max_concurrent_requests = DefaultMaxConcurrentRequests
    /\ site = <<>>
    /\ Idle
    /\ legacy = [NoLegacy EXCEPT !.pc = "loop"]
    /\ entry_date_text = <<>>
    /\ parsed = [exc |-> "pending", value |-> <<>>]

NextLegacy ==
    \/ legacy_wave_start
    \/ legacy_scrape_thread_returns
    \/ legacy_scrape_thread_raises
    \/ legacy_wave_end
    \/ legacy_exit

SpecLegacy == InitLegacy /\ [][NextLegacy]_vars

-----------------------------------------------------------------------------
(* Properties *)

Started(t) == tpc[t] \in {"gather", "write", "done"}
Scraped(t) == scraped_data[t].exc = "none"
PageDone(t, p) == p \in DOMAIN ppc[t] /\ ppc[t][p] = "done"

RECURSIVE PagesFrom(_, _)
\* R_p ++ ... ++ R_N of task t
PagesFrom(t, p) ==
    IF p > number_of_pages[t] THEN <<>>
    ELSE page_result[t][p].value \o PagesFrom(t, p + 1)

RECURSIVE LengthFrom(_, _)
\* |R_p| + ... + |R_N| of task t
LengthFrom(t, p) ==
    IF p > number_of_pages[t] THEN 0
    ELSE Len(page_result[t][p].value) + LengthFrom(t, p + 1)

\* C1: the entry list scrape_thread returns is R1 ++ R2 ++ ... ++ RN, the page
\* results in page-number order, whatever the order in which the page tasks
\* finished; its length is the sum of the page lengths.
C1_PageNumberOrder ==
    \A t \in Tasks :
        Scraped(t) =>
            /\ scraped_data[t].value = PagesFrom(t, 1)
            /\ Len(scraped_data[t].value) = LengthFrom(t, 1)

\* a scrape of three pages that finished in the order 3, 2, 1, pages 1 and 2
\* with different non-empty results, five entries in all
C1_Witness ==
    \E t \in Tasks :
        /\ Scraped(t)
        /\ completed[t] = <<3, 2, 1>>
        /\ page_result[t][1].value # <<>>
        /\ page_result[t][2].value # <<>>
        /\ page_result[t][1].value # page_result[t][2].value
        /\ Len(scraped_data[t].value) = 5

\* C2: the page tasks between acquiring and releasing the semaphore are never
\* more than the budget max_concurrent_requests.
C2_BudgetRespected ==
    \A t \in Tasks : Cardinality(InFlight(t)) <= max_concurrent_requests

\* more pages than the budget, the budget in use, and a page task waiting
C2_Witness ==
    \E t \in Tasks :
        /\ number_of_pages[t] > max_concurrent_requests
        /\ Cardinality(InFlight(t)) = max_concurrent_requests
        /\ \E p \in DOMAIN ppc[t] : ppc[t][p] = "wait"

\* C3: a page whose GET fails on the first k attempts and would succeed on
\* attempt k + 1 <= max_tries ends with the result of a run without failure.
C3_RetryUntilSuccess ==
    \A t \in Tasks : \A p \in DOMAIN ppc[t] :
        LET page == site[t].pages[p]
        IN  PageDone(t, p) /\ page.fail_first >= 1 /\ page.fail_first + 1 <= max_tries
                => page_result[t][p] = parse_entries(page.entries)

\* C4: a page whose GET fails on every attempt ends with an empty result after
\* exactly max_tries GETs.
C4_ExactlyMaxTries ==
    \A t \in Tasks : \A p \in DOMAIN ppc[t] :
        PageDone(t, p) /\ site[t].pages[p].fail_first >= max_tries
            => attempts[t][p] = max_tries /\ page_result[t][p] = Returned(<<>>)

\* C5: find_number_of_pages returns an integer >= 1 whatever the first
\* document of the thread is.
C5_AtLeastOnePage ==
    \A t \in Tasks : Started(t) => number_of_pages[t] >= 1

\* process_thread tasks inside scrape_thread
Scraping == {t \in Tasks : tpc[t] \in {"discover", "soup", "gather"}}

\* C6: given more identifiers than a batch budget b, at most b scrape_thread
\* invocations run at once (stated for every b below the number of identifiers).
C6_BatchBudgetRespected ==
    \A b \in 1..(Len(thread_list) - 1) : Cardinality(Scraping) <= b

\* the last call of scrape_page for page p of task t failed: the GET raised,
\* or an entry of the body could not be parsed
PageFailed(t, p) ==
    \/ attempts[t][p] <= site[t].pages[p].fail_first
    \/ \E i \in 1..Len(site[t].pages[p].entries) :
          parse_entry(site[t].pages[p].entries[i]).exc # "none"

\* C7: a page whose fetch or parse fails contributes an empty result and a
\* diagnostic; every other page task of the thread still runs to its end and
\* its full result is in what scrape_thread returns, which never raises.
C7_PageFailureContained ==
    \A t \in Tasks :
        /\ \A p \in DOMAIN ppc[t] :
              PageDone(t, p) =>
                  IF PageFailed(t, p)
                  THEN /\ page_result[t][p] = Returned(<<>>)
                       /\ Diag("error", "scrape_page", t, p) \in log
                  ELSE /\ page_result[t][p].exc = "none"
                       /\ Len(page_result[t][p].value) = Len(site[t].pages[p].entries)
                       /\ \A i \in 1..Len(site[t].pages[p].entries) :
                             page_result[t][p].value[i]
                                 = parse_entry(site[t].pages[p].entries[i]).value
        /\ tpc[t] \in {"write", "done"} =>
              /\ Scraped(t)
              /\ \A p \in DOMAIN ppc[t] : PageDone(t, p)
              /\ \A p \in DOMAIN ppc[t] :
                    ~PageFailed(t, p) => Len(scraped_data[t].value) >= Len(site[t].pages[p].entries)

\* a failed page finished first, a sibling finished after it with entries, and
\* scrape_thread returned them
C7_Witness ==
    \E t \in Tasks : \E p, q \in DOMAIN ppc[t] :
        /\ tpc[t] \in {"write", "done"}
        /\ PageFailed(t, p) /\ ~PageFailed(t, q)
        /\ completed[t][1] = p
        /\ page_result[t][q].value # <<>>
        /\ scraped_data[t].value = page_result[t][q].value

\* some entry of the body lacks a required node
LacksField(e) == ~e.content.found \/ ~e.author.found \/ ~e.date.found
HasFieldMissing(t, p) ==
    /\ attempts[t][p] > site[t].pages[p].fail_first
    /\ \E i \in 1..Len(site[t].pages[p].entries) : LacksField(site[t].pages[p].entries[i])

\* the entries of a body that have all three nodes, parsed, in source order
OtherEntriesParsed(entries) ==
    LET rest == SelectSeq(entries, LAMBDA e : ~LacksField(e))
    IN  [i \in 1..Len(rest) |-> parse_entry(rest[i]).value]

\* C8 as claimed: an entry that lacks a node is skipped alone, the page result
\* is the page's other entries in source order.
C8_OnlyEntrySkipped ==
    \A t \in Tasks : \A p \in DOMAIN ppc[t] :
        PageDone(t, p) /\ HasFieldMissing(t, p)
            => page_result[t][p].value = OtherEntriesParsed(site[t].pages[p].entries)

\* C8 as amended: an entry that lacks a node fails the parse of its page: the
\* page result is empty, whatever the other entries, and a diagnostic is logged.
C8_PageEmptied ==
    \A t \in Tasks : \A p \in DOMAIN ppc[t] :
        PageDone(t, p) /\ HasFieldMissing(t, p)
            => /\ page_result[t][p] = Returned(<<>>)
               /\ Diag("error", "scrape_page", t, p) \in log

\* a finished page with an entry that lacks a node between two entries that
\* have all of theirs
C8_Witness ==
    \E t \in Tasks : \E p \in DOMAIN ppc[t] :
        /\ PageDone(t, p) /\ HasFieldMissing(t, p)
        /\ OtherEntriesParsed(site[t].pages[p].entries) # <<>>
        /\ page_result[t][p].value = <<>>

\* the text before and after the first '~' of a text that has one
BeforeFirst(text) == SubSeq(text, 1, IndexOf(text, "~") - 1)
AfterFirst(text) == SubSeq(text, IndexOf(text, "~") + 1, Len(text))

\* C9: _parse_entry splits the date text at its first '~' only, trimming both
\* halves; without a '~' the whole trimmed text is the creation date and the
\* last-changed field is a marker no present last-changed value can equal.
C9_SplitAtFirstTilde ==
    parsed.exc # "pending" =>
        /\ parsed.exc = "none"
        /\ IF Contains(entry_date_text, "~")
           THEN /\ parsed.value.DateCreated = Strip(BeforeFirst(entry_date_text))
                /\ parsed.value.LastChanged = Strip(AfterFirst(entry_date_text))
                /\ parsed.value.LastChanged # NullText
           ELSE /\ parsed.value.DateCreated = Strip(entry_date_text)
                /\ parsed.value.LastChanged = NullText

\* the write_data calls made for task t
WrittenFor(t) == {i \in 1..Len(written) : written[i].task = t}

\* the hand-over of task t's result: file name thread.format, the entries, the format
HandedOver(t) ==
    \E i \in WrittenFor(t) :
        /\ written[i].filename = thread_list[t] \o <<".">> \o output_format
        /\ written[i].data = scraped_data[t].value
        /\ written[i].filetype = output_format

\* C10 as claimed: every result of a completed scrape is handed to write_data,
\* an empty one included.
C10_EveryResultWritten ==
    \A t \in Tasks : Scraped(t) => HandedOver(t)

\* C10 as amended: a non-empty result is handed to write_data under the name
\* thread.format with the configured format; an empty result is not handed
\* over, a warning is logged in its place.
C10_NonEmptyResultWritten ==
    \A t \in Tasks :
        Scraped(t) =>
            IF scraped_data[t].value # <<>>
            THEN HandedOver(t) /\ Cardinality(WrittenFor(t)) = 1
            ELSE WrittenFor(t) = {} /\ Diag("warning", "no data", t, 0) \in log

\* a batch in which one result was handed over and an empty one was not
C10_Witness ==
    \E t, u \in Tasks :
        /\ Scraped(t) /\ scraped_data[t].value # <<>> /\ HandedOver(t)
        /\ Scraped(u) /\ scraped_data[u].value = <<>> /\ WrittenFor(u) = {}
        /\ tpc[t] = "done" /\ tpc[u] = "done"

\* the write of task t's file failed: write_data was called and did not return
WriteFailed(t) ==
    /\ tpc[t] # "write"
    /\ WrittenFor(t) # {}
    /\ Diag("info", "saved", t, 0) \notin log

\* C11: a write that fails is recorded, and no process_thread task is ended by
\* it: no task raises or is cancelled, and when main has returned every task
\* has run to its end and every non-empty result was handed to the writer.
C11_WriteFailureIsolated ==
    /\ \A t \in Tasks :
          /\ tpc[t] \notin {"raised", "cancelled"}
          /\ WriteFailed(t) =>
                tpc[t] = "done" /\ Diag("error", "process_thread", t, 0) \in log
    /\ main_pc = "exit" =>
          /\ exit_status = 0
          /\ \A u \in Tasks :
                /\ tpc[u] = "done"
                /\ Scraped(u)
                /\ scraped_data[u].value # <<>> => HandedOver(u)

\* the write of one task failed, and a task whose write_data call came later
\* still had its file saved
C11_Witness ==
    \E t, u \in Tasks :
        /\ main_pc = "exit"
        /\ WriteFailed(t)
        /\ Len(written) = 2 /\ written[1].task = t /\ written[2].task = u
        /\ HandedOver(u)
        /\ Diag("info", "saved", u, 0) \in log

\* C12: scrape_thread never raises, whatever fails below it; with a page count
\* of zero or less it builds no page task, asks for no page and returns [].
C12_NoFailureOutcome ==
    \A t \in Tasks :
        /\ scraped_data[t].exc \in {"pending", "none"}
        /\ tpc[t] \in {"write", "done"} => Scraped(t)
        /\ Started(t) /\ number_of_pages[t] <= 0 =>
              /\ DOMAIN ppc[t] = {}
              /\ BagCardinality(requests[t]) = 1
              /\ tpc[t] # "gather" => Scraped(t) /\ scraped_data[t].value = <<>>

\* a scrape of a thread whose pager declares zero pages has returned []
C12_Witness ==
    \E t \in Tasks :
        /\ tpc[t] = "done"
        /\ number_of_pages[t] = 0
        /\ Scraped(t) /\ scraped_data[t].value = <<>>

\* the command line names no identifier, or a file that cannot be read
ConfigurationFailure ==
    \/ args.file = "unreadable"
    \/ args.threads = <<>> /\ (args.file = "none" \/ args.lines = <<>>)

\* C13: on a configuration failure the script ends with status 1 and no
\* request has been issued.
C13_ConfigurationFailureExits ==
    main_pc # "cli" /\ ConfigurationFailure =>
        /\ main_pc = "exit"
        /\ exit_status = 1
        /\ \A t \in Tasks : requests[t] = EmptyBag /\ tpc[t] = "created"

\* identifiers were given with -t, the file of -f could not be read, and the
\* script has ended with status 1
C13_Witness ==
    /\ main_pc = "exit"
    /\ exit_status = 1
    /\ args.file = "unreadable"
    /\ thread_list # <<>>
    /\ \A t \in Tasks : requests[t] = EmptyBag

\* C14: the slots taken from the semaphore are exactly those of the page
\* tasks between acquire and the end of their call, on success and on failure;
\* a task that waits or has finished holds none, so that with every page task
\* finished no slot is held.
C14_SlotsReleased ==
    \A t \in Tasks :
        Started(t) =>
            /\ semaphore[t] = max_concurrent_requests - Cardinality(InFlight(t))
            /\ (\A p \in DOMAIN ppc[t] : ppc[t][p] = "done") =>
                  semaphore[t] = max_concurrent_requests

\* every page task has finished, one after a failed GET and one with its
\* entries, and every slot is free
C14_Witness ==
    \E t \in Tasks : \E p, q \in DOMAIN ppc[t] :
        /\ \A r \in DOMAIN ppc[t] : ppc[t][r] = "done"
        /\ site[t].pages[p].fail_first > 0
        /\ page_result[t][q].value # <<>>
        /\ semaphore[t] = max_concurrent_requests

\* no GET of task t's site raises
NoTransportFailure(t) ==
    /\ site[t].doc.transport = "ok"
    /\ \A p \in DOMAIN site[t].pages : site[t].pages[p].fail_first = 0

\* base_url + thread, and base_url + thread + '?p=' + k for k in first..N, once each
UrlsFrom(t, first) ==
    {BASE_URL \o thread_list[t]}
        \cup {BASE_URL \o thread_list[t] \o <<"?", "p", "=">> \o str(k) :
                 k \in first..number_of_pages[t]}

\* the GETs of task t are those of `urls`, one each
RequestedOnce(t, urls) ==
    /\ BagToSet(requests[t]) = urls
    /\ \A u \in urls : CopiesIn(u, requests[t]) = 1

\* C15 as claimed: without transport failure the GETs of a scrape are one of
\* the thread url and one of '?p=k' for k in 2..N.
C15_FirstPageNotRefetched ==
    \A t \in Tasks :
        tpc[t] \in {"write", "done"} /\ NoTransportFailure(t) => RequestedOnce(t, UrlsFrom(t, 2))

\* C15 as amended: without transport failure the GETs of a scrape are one of
\* the thread url, for the page count only, and one of '?p=k' for every k in
\* 1..N: the first page is asked for again as '?p=1'.
C15_EveryPageFetched ==
    \A t \in Tasks :
        tpc[t] \in {"write", "done"} /\ NoTransportFailure(t) => RequestedOnce(t, UrlsFrom(t, 1))

\* a finished scrape of three pages without transport failure: four GETs
C15_Witness ==
    \E t \in Tasks :
        /\ tpc[t] \in {"write", "done"} /\ NoTransportFailure(t)
        /\ number_of_pages[t] = 3
        /\ BagCardinality(requests[t]) = 4
        /\ CopiesIn(BASE_URL \o thread_list[t] \o <<"?", "p", "=", "1">>, requests[t]) = 1

\* C16: the thread url is asked for exactly once, a failure of that GET gives
\* the page count 1 at once, and no page is asked for before
\* find_number_of_pages has returned.
C16_DiscoveryOnceAndFirst ==
    \A t \in Tasks :
        /\ tpc[t] # "created" => CopiesIn(BASE_URL \o thread_list[t], requests[t]) = 1
        /\ tpc[t] \in {"created", "discover", "soup"} => BagCardinality(requests[t]) <= 1
        /\ Started(t) /\ site[t].doc.transport # "ok" => number_of_pages[t] = 1

\* the GET of the thread url failed, the page count is 1 and the page has
\* been asked for
C16_Witness ==
    \E t \in Tasks :
        /\ site[t].doc.transport # "ok"
        /\ Started(t)
        /\ CopiesIn(BASE_URL \o thread_list[t], requests[t]) = 1
        /\ BagCardinality(requests[t]) = 2

\* C17: a GET that ends in a transport failure is followed by another while
\* tries remain, and nothing else is: a finished page task has made one GET
\* more than the GETs that failed, at most max_tries.
C17_RetryExactlyOnTransportFailure ==
    \A t \in Tasks : \A p \in DOMAIN ppc[t] :
        PageDone(t, p) =>
            attempts[t][p] = IF site[t].pages[p].fail_first + 1 <= max_tries
                             THEN site[t].pages[p].fail_first + 1 ELSE max_tries

\* C18: a file is written only when every page task of its thread has
\* finished, and no file name is written twice in one run.
C18_WrittenOnceWhenComplete ==
    /\ \A i \in 1..Len(written) :
          \A p \in DOMAIN ppc[written[i].task] : PageDone(written[i].task, p)
    /\ \A i, j \in 1..Len(written) :
          i # j => written[i].filename # written[j].filename

RECURSIVE Sum(_)
Sum(counts) == IF counts = <<>> THEN 0 ELSE Head(counts) + Sum(Tail(counts))

\* number of identifiers in the waves before wave k
Before(k) == Sum([j \in 1..(k - 1) |-> Len(legacy.waves[j])])

====
